---- MODULE Spec2Model ----
(***************************************************************************)
(* Model of the CodeSkip backend: the WebSocket command loop of            *)
(* backend/main.py (websocket_endpoint), its module-level response cache,  *)
(* the response normaliser validate_ai_response, and the completion client *)
(* of backend/ai/engine.py (AIClient.create_chat_completion,               *)
(* AIEngine.process), and the continuous recording of                      *)
(* backend/audio/transcription.py (AudioTranscriber).                      *)
(*                                                                         *)
(* Texts are sequences of tokens.  A token is a run of characters that the *)
(* regular expressions of the code treat as a unit: the code fence, the    *)
(* newline, the blank, a word (\w+), or an opaque phrase that has no       *)
(* blank at either end and contains no fence, newline or keyword.          *)
(*                                                                         *)
(* The event loop is single-threaded and the handler awaits only in        *)
(* receive_text and send_json, and ai_engine.process is a blocking call,   *)
(* so everything a command does between its receive and its send is one    *)
(* atomic step; wall-clock time may pass during that step.                 *)
(***************************************************************************)
EXTENDS Integers, Sequences, FiniteSets, TLC

\* ------------------------------------------------------------------------
\* Bounds of the model
\* ------------------------------------------------------------------------
NumConns == 2
Epoch == 1000
\* Number of segments (lines or fenced blocks) of a raw model text
MaxSegments == 3
\* Number of tokens of a screen text handed to the engine on its own
MaxTokens == 3
\* Number of HTTP requests one completion call is followed for
MaxRequests == 3
\* Number of recording threads started in all
MaxThreads == 3
\* Number of chunks the audio buffer keeps (30 s of audio in the code)
MaxBufferSize == 2

\* Offsets (seconds after Epoch) at which the clock is sampled.
Offsets == {0, 5, 10, 300, 305}
Times == {Epoch + d : d \in Offsets}
Conns == 1..NumConns

\* ------------------------------------------------------------------------
\* Program constants
\* ------------------------------------------------------------------------
CACHE_DURATION == 10
MAX_RETRIES == 2
RETRY_STATUS_CODES == {429, 500, 502, 503, 504}
None == [py_none |-> TRUE]
AUTH_TOKEN == [str |-> "secret-token"]

\* ------------------------------------------------------------------------
\* Texts
\* ------------------------------------------------------------------------
\* The fence of a code block (three backticks), written with apostrophes.
FENCE == "'''"
NL == "\n"
SP == " "
DefKeywords == {"def", "class", "function"}
LineKeywords == {"def", "class", "if", "for", "while", "return", "import", "from"}
WordTokens == LineKeywords \cup DefKeywords \cup {"x", "python"}

\* The phrases of the model that do not begin with a word character
PunctInitial == {"(!) Error:", "(!) Error: No text detected in screenshot.",
                 "'choices'", "(!)", "{\"explanation\": \"",
                 "\", \"python_code\": \"", "\"}", "\\n"}

IsSpace(t) == t \in {SP, NL}
\* the token is a word: it matches \w+ as a whole
IsWord(t) == t \in WordTokens
\* the token begins with a word character: \w+ matches at its start
StartsWithWord(t) == ~IsSpace(t) /\ t # FENCE /\ t \notin PunctInitial

RECURSIVE lstrip(_)
lstrip(s) == IF s # <<>> /\ IsSpace(Head(s)) THEN lstrip(Tail(s)) ELSE s

RECURSIVE rstrip(_)
rstrip(s) ==
    IF s # <<>> /\ IsSpace(s[Len(s)]) THEN rstrip(SubSeq(s, 1, Len(s) - 1)) ELSE s

\* str.strip()
strip(s) == rstrip(lstrip(s))

\* len(str): the number of characters of a text
RECURSIVE len(_)
len(s) == IF s = <<>> THEN 0 ELSE Len(Head(s)) + len(Tail(s))

\* str.split('\n'): a sequence of lines, never empty
RECURSIVE split(_)
split(s) ==
    IF \A i \in 1..Len(s) : s[i] # NL
    THEN <<s>>
    ELSE LET i == CHOOSE k \in 1..Len(s) :
                      s[k] = NL /\ \A j \in 1..(k - 1) : s[j] # NL
         IN <<SubSeq(s, 1, i - 1)>> \o split(SubSeq(s, i + 1, Len(s)))

\* sep.join(parts)
RECURSIVE join(_, _)
join(sep, parts) ==
    IF parts = <<>> THEN <<>>
    ELSE IF Len(parts) = 1 THEN parts[1]
    ELSE parts[1] \o sep \o join(sep, Tail(parts))

\* ------------------------------------------------------------------------
\* validate_ai_response (backend/main.py)
\* ------------------------------------------------------------------------
\* Number of consecutive word tokens of s from position i on: the greedy \w*
RECURSIVE WordRun(_, _)
WordRun(s, i) ==
    IF i <= Len(s) /\ IsWord(s[i]) THEN 1 + WordRun(s, i + 1) ELSE 0

\* The code_pattern fence, \w*, newline, .*? (DOTALL, lazy), fence matches at p
PatternMatchesAt(s, p) ==
    /\ p \in 1..Len(s)
    /\ s[p] = FENCE
    /\ LET q == p + 1 + WordRun(s, p + 1)
       IN /\ q <= Len(s)
          /\ s[q] = NL
          /\ \E k \in (q + 1)..Len(s) : s[k] = FENCE

\* The match object of code_pattern at p: group(2) is s[nl+1 .. end-1]
PatternMatch(s, p) ==
    LET q == p + 1 + WordRun(s, p + 1)
        k == CHOOSE e \in (q + 1)..Len(s) :
                 s[e] = FENCE /\ \A j \in (q + 1)..(e - 1) : s[j] # FENCE
    IN [start |-> p, nl |-> q, end |-> k]

\* a search that stops at the first block
finditer_first(s, i) ==
    IF \A p \in i..Len(s) : ~PatternMatchesAt(s, p)
    THEN <<>>
    ELSE <<PatternMatch(s, CHOOSE p0 \in i..Len(s) :
                              /\ PatternMatchesAt(s, p0)
                              /\ \A j \in i..(p0 - 1) : ~PatternMatchesAt(s, j))>>

\* re.finditer(code_pattern, s, re.DOTALL) scanning from position i
RECURSIVE finditer(_, _)
finditer(s, i) ==
    IF \A p \in i..Len(s) : ~PatternMatchesAt(s, p)
    THEN <<>>
    ELSE LET p == CHOOSE p0 \in i..Len(s) :
                      /\ PatternMatchesAt(s, p0)
                      /\ \A j \in i..(p0 - 1) : ~PatternMatchesAt(s, j)
             m == PatternMatch(s, p)
         IN <<m>> \o finditer(s, m.end + 1)

\* re.sub(code_pattern, '', s, flags=re.DOTALL) from position i
RECURSIVE sub(_, _, _)
sub(s, ms, i) ==
    IF ms = <<>> THEN SubSeq(s, i, Len(s))
    ELSE SubSeq(s, i, ms[1].start - 1) \o sub(s, Tail(ms), ms[1].end + 1)

\* re.search(r'(def\s+\w+|class\s+\w+|function\s+\w+)', s)
RECURSIVE SpaceRun(_, _)
SpaceRun(s, i) ==
    IF i <= Len(s) /\ IsSpace(s[i]) THEN 1 + SpaceRun(s, i + 1) ELSE 0

has_definition(s) ==
    \E i \in 1..Len(s) :
        /\ s[i] \in DefKeywords
        /\ SpaceRun(s, i + 1) >= 1
        /\ i + 1 + SpaceRun(s, i + 1) <= Len(s)
        /\ StartsWithWord(s[i + 1 + SpaceRun(s, i + 1)])

\* re.match(r'^\s+(def|class|if|for|while|return|import|from)', line)
indented_keyword(line) ==
    /\ SpaceRun(line, 1) >= 1
    /\ 1 + SpaceRun(line, 1) <= Len(line)
    /\ line[1 + SpaceRun(line, 1)] \in LineKeywords

\* re.match(r'^(def|class)\s+', line)
definition_start(line) ==
    /\ Len(line) >= 2
    /\ line[1] \in {"def", "class"}
    /\ IsSpace(line[2])

\* The loop over the lines (main.py 87-101); st is
\* [code_lines, explanation_lines, in_code]
RECURSIVE classify_lines(_, _)
classify_lines(lines, st) ==
    IF lines = <<>> THEN st
    ELSE LET line == Head(lines)
             st1 ==
                 IF indented_keyword(line) \/ st.in_code
                 THEN [st EXCEPT !.code_lines = Append(@, line), !.in_code = TRUE]
                 ELSE IF definition_start(line)
                 THEN [st EXCEPT !.code_lines = Append(@, line), !.in_code = TRUE]
                 ELSE IF st.in_code /\ strip(line) = <<>>
                 THEN [st EXCEPT !.code_lines = Append(@, line)]
                 ELSE [st EXCEPT !.explanation_lines = Append(@, line),
                                 !.in_code = FALSE]
         IN classify_lines(Tail(lines), st1)

NoResponseText == <<"No response received.">>
LeadInText == <<"Here's the solution:">>

\* the explanation left empty beside the code
explanation_as_is(final_explanation, final_code) == final_explanation

\* if not final_explanation and final_code (main.py 113-115)
with_lead_in(final_explanation, final_code) ==
    IF final_explanation = <<>> /\ final_code # <<>>
    THEN LeadInText ELSE final_explanation

\* a normaliser that also reports the language of the code
validate_ai_response_with_lang(raw_content) ==
    [explanation |-> strip(raw_content), python_code |-> <<>>,
     lang |-> "python"]

validate_ai_response(raw_content) ==
    IF raw_content = <<>> \/ strip(raw_content) = <<>>
    THEN [explanation |-> NoResponseText, python_code |-> <<>>]
    ELSE
      LET matches == finditer(raw_content, 1)
          fenced == [i \in 1..Len(matches) |->
                        strip(SubSeq(raw_content, matches[i].nl + 1,
                                     matches[i].end - 1))]
          stripped == strip(sub(raw_content, matches, 1))
          st == classify_lines(split(raw_content),
                               [code_lines |-> <<>>, explanation_lines |-> <<>>,
                                in_code |-> FALSE])
          inline == fenced = <<>> /\ has_definition(raw_content)
                                  /\ st.code_lines # <<>>
          code_blocks == IF inline THEN <<join(<<NL>>, st.code_lines)>>
                         ELSE fenced
          explanation_text ==
              IF inline THEN strip(join(<<NL>>, st.explanation_lines))
              ELSE stripped
          final_code == join(<<NL, NL>>, code_blocks)
          final_explanation == strip(explanation_text)
      IN [explanation |-> with_lead_in(final_explanation, final_code),
          python_code |-> final_code]

\* ------------------------------------------------------------------------
\* Completion client and engine (backend/ai/engine.py)
\* ------------------------------------------------------------------------
\* What the provider does with one HTTP request
OkResponse(content) == [kind |-> "ok", status |-> 200, content |-> content]
TimeoutResponse == [kind |-> "timeout", status |-> 0, content |-> <<>>]
HttpErrorResponse(status) == [kind |-> "http", status |-> status, content |-> <<>>]
ConnectionErrorResponse == [kind |-> "connection", status |-> 0, content |-> <<>>]
BadBodyResponse == [kind |-> "bad_body", status |-> 200, content |-> <<>>]

TimeoutMessage == <<"Read timed out.">>
BadBodyMessage == <<"'choices'">>

_http_error_message(status_code) ==
    IF status_code = 401 THEN <<"Invalid API key">>
    ELSE IF status_code = 429 THEN <<"Rate limit exceeded">>
    ELSE IF status_code = 400 THEN <<"Bad request">>
    ELSE <<"HTTP " \o ToString(status_code) \o " error">>

\* a timeout that is never retried
timeout_is_always_final(attempt) == TRUE

\* except requests.exceptions.Timeout: retried unless it is the last attempt
timeout_is_final(attempt) == attempt = MAX_RETRIES

\* every error status retried, not only those of RETRY_STATUS_CODES
http_error_is_retried_any_status(status_code, attempt) == attempt < MAX_RETRIES

\* except requests.exceptions.HTTPError: the condition of the continue
http_error_is_retried(status_code, attempt) ==
    status_code \in RETRY_STATUS_CODES /\ attempt < MAX_RETRIES

\* a retry that does not move on to the next attempt
repeat_attempt(attempt) == attempt

\* for attempt in range(1, self.MAX_RETRIES + 1): the attempt after this one
next_attempt(attempt) == attempt + 1

\* process, line 361: the screen text is worth a completion call
input_is_valid(screen_text) ==
    ~(screen_text = <<>> \/ len(strip(screen_text)) < 5)

\* a loop that repeats the request after every timeout and every status of
\* RETRY_STATUS_CODES for as long as the provider goes on
RECURSIVE attempt_loop_unbounded(_, _)
attempt_loop_unbounded(responses, attempt) ==
    IF attempt > Len(responses)
    THEN [raised |-> TRUE, value |-> TimeoutMessage, requests |-> attempt - 1]
    ELSE LET r == responses[attempt] IN
      CASE r.kind = "ok" ->
             [raised |-> FALSE, value |-> r.content, requests |-> attempt]
        [] r.kind = "timeout" -> attempt_loop_unbounded(responses, attempt + 1)
        [] r.kind = "http" ->
             IF r.status \in RETRY_STATUS_CODES
             THEN attempt_loop_unbounded(responses, attempt + 1)
             ELSE [raised |-> TRUE, value |-> _http_error_message(r.status),
                   requests |-> attempt]
        [] r.kind = "connection" ->
             [raised |-> TRUE, value |-> <<"Failed to connect to AI service">>,
              requests |-> attempt]
        [] OTHER ->
             [raised |-> TRUE, value |-> <<"Error:", SP>> \o BadBodyMessage,
              requests |-> attempt]

\* The for loop of create_chat_completion from the given attempt on;
\* responses[k] is the provider's behaviour on the k-th request of this call.
RECURSIVE attempt_loop(_, _)
attempt_loop(responses, attempt) ==
    IF attempt > MAX_RETRIES
    THEN [raised |-> FALSE, value |-> <<>>, requests |-> attempt - 1]
    ELSE LET r == responses[attempt] IN
      CASE r.kind = "ok" ->
             [raised |-> FALSE, value |-> r.content, requests |-> attempt]
        [] r.kind = "timeout" ->
             IF timeout_is_final(attempt)
             THEN [raised |-> TRUE, value |-> TimeoutMessage, requests |-> attempt]
             ELSE attempt_loop(responses, attempt + 1)
        [] r.kind = "http" ->
             IF http_error_is_retried(r.status, attempt)
             THEN attempt_loop(responses, attempt + 1)
             ELSE [raised |-> TRUE, value |-> _http_error_message(r.status),
                   requests |-> attempt]
        [] r.kind = "connection" ->
             [raised |-> TRUE, value |-> <<"Failed to connect to AI service">>,
              requests |-> attempt]
        [] OTHER ->
             [raised |-> TRUE, value |-> <<"Error:", SP>> \o BadBodyMessage,
              requests |-> attempt]

create_chat_completion(responses) == attempt_loop(responses, 1)

NoTextDetected == <<"(!) Error: No text detected in screenshot.">>

_format_error(message) ==
    <<"(!) Error:", SP>> \o message
        \o <<NL, NL, "Please check your configuration and try again.">>

\* process without the input validation of lines 361-363
process_without_validation(screen_text, audio_text, responses) ==
    LET r == create_chat_completion(responses)
    IN [text |-> IF r.raised THEN _format_error(r.value) ELSE r.value,
        prompt |-> <<[screen_text |-> screen_text, audio_text |-> audio_text]>>,
        process_calls |-> 1,
        complete_calls |-> 1,
        requests |-> r.requests,
        failed |-> r.raised]

\* process with the length taken of the text as it is, not trimmed
process_without_trimming(screen_text, audio_text, responses) ==
    IF screen_text = <<>> \/ len(screen_text) < 5
    THEN [text |-> NoTextDetected, prompt |-> <<>>, process_calls |-> 1,
          complete_calls |-> 0, requests |-> 0, failed |-> FALSE]
    ELSE process_without_validation(screen_text, audio_text, responses)

\* AIEngine.process: the text it returns, with the messages it was asked to
\* complete, the number of create_chat_completion calls and of HTTP requests
\* it made, and whether create_chat_completion raised.
process(screen_text, audio_text, responses) ==
    IF screen_text = <<>> \/ len(strip(screen_text)) < 5
    THEN [text |-> NoTextDetected, prompt |-> <<>>, process_calls |-> 1,
          complete_calls |-> 0, requests |-> 0, failed |-> FALSE]
    ELSE LET r == create_chat_completion(responses)
         IN [text |-> IF r.raised THEN _format_error(r.value) ELSE r.value,
             prompt |-> <<[screen_text |-> screen_text, audio_text |-> audio_text]>>,
             process_calls |-> 1,
             complete_calls |-> 1,
             requests |-> r.requests,
             failed |-> r.raised]

\* What a collaborator meets when grabbing the screen, running the OCR,
\* saving the audio buffer or transcribing it raises
Raised == [raised |-> TRUE]

\* ScreenCapture.capture_and_extract_text: seen is the text the OCR reads, or
\* Raised; the except clause turns every failure into the empty text.
capture_and_extract_text(seen) ==
    IF seen = Raised THEN <<>> ELSE seen.str

\* AudioTranscriber.get_transcription: heard is the new transcription, None
\* when the buffer is empty, or Raised when saving or transcribing raises.
get_transcription(last, heard) ==
    IF heard = None THEN [text |-> last, last_transcription |-> last]
    ELSE IF heard = Raised THEN [text |-> last, last_transcription |-> last]
    ELSE [text |-> heard.str, last_transcription |-> heard.str]

\* ------------------------------------------------------------------------
\* The command loop (backend/main.py, websocket_endpoint)
\* ------------------------------------------------------------------------
VARIABLES
    now,                  \* time.time()
    last_response_cache,  \* None or [screen_text, audio_text, ai_response]
    last_capture_time,
    last_screenshot_data, \* None or [screen_text, audio_text, timestamp]
    active_connections,
    last_transcription,   \* AudioTranscriber.last_transcription
    pc,                   \* where the handler of each connection stands
    lastOp,               \* what the last step did (history)
    last_returned,        \* data of the last response sent since the last
                          \* clear, None if there is none (history)
    frame,                \* the locals of each handler while it serves a
                          \* command step by step, None otherwise
    is_recording,         \* AudioTranscriber.is_recording
    recording_thread,     \* AudioTranscriber.recording_thread, 0 for None
    audio_buffer,         \* AudioTranscriber.audio_buffer: of each chunk,
                          \* the thread that appended it
    threads,              \* where each recording thread started so far stands
    caller                \* where the caller of the transcriber stands

\* The recording state of the AudioTranscriber
transcriber ==
    <<is_recording, recording_thread, audio_buffer, threads, caller>>

vars == <<now, last_response_cache, last_capture_time, last_screenshot_data,
          active_connections, last_transcription, pc, lastOp, last_returned,
          frame, transcriber>>

\* No handler is inside a command
NoFrames == frame = [c \in Conns |-> None]

\* AudioTranscriber.__init__: not recording, no thread, an empty buffer
NewTranscriber ==
    /\ is_recording = FALSE
    /\ recording_thread = 0
    /\ audio_buffer = <<>>
    /\ threads = <<>>
    /\ caller = "idle"

\* Inputs of the environment
Tokens == {AUTH_TOKEN, [str |-> "wrong-token"], None}
ScreenTexts == {<<>>, <<SP, "x", NL>>, <<"Two Sum problem">>}
Seen == {Raised} \cup {[str |-> t] : t \in ScreenTexts}
Heard == {None, Raised, [str |-> <<"use a hash map">>]}
PlainAnswer == <<"It sorts the list.">>
FencedAnswer == <<"Try:", NL, FENCE, "python", NL, "return", SP, "x", NL, FENCE>>
BackendScripts ==
    { <<OkResponse(PlainAnswer), OkResponse(PlainAnswer)>>,
      <<HttpErrorResponse(503), OkResponse(FencedAnswer)>>,
      <<TimeoutResponse, TimeoutResponse>> }

\* Server messages
ResponseMessage(data) == [type |-> "response", data |-> data]
NoScreenshotError ==
    [type |-> "error", message |-> "Take a screenshot first",
     details |-> "Press Ctrl+Shift+C to capture before solving"]
ScreenshotExpiredError ==
    [type |-> "error", message |-> "Screenshot expired",
     details |-> "Take a new screenshot (Ctrl+Shift+C)"]
ConnectionErrorMessage ==
    [type |-> "error", message |-> "Connection error",
     details |-> "Please reconnect"]
ClearedMessage == [type |-> "cleared"]
CaptureFailedError ==
    [type |-> "error", message |-> "Capture failed",
     details |-> "Please try again"]

\* The record of one step: the command, the messages sent to the client in
\* order, the collaborator calls made and whether the screen or the audio
\* collaborator met a failure, the locals screenshot_age and
\* time_since_capture of solve (-1 when not computed), whether the handler
\* returned, and in follows the command of the step before when that was a
\* capture or a clear of another connection ("" otherwise).
Op(cmd, conn) ==
    [cmd |-> cmd, conn |-> conn, token |-> None, sent |-> <<>>,
     prompt |-> <<>>, screen_calls |-> 0, audio_calls |-> 0,
     process_calls |-> 0, complete_calls |-> 0, requests |-> 0,
     failed |-> FALSE, screen_failed |-> FALSE, audio_failed |-> FALSE,
     screenshot_age |-> -1, time_since_capture |-> -1,
     accepted |-> FALSE, close_code |-> 0, returned |-> FALSE,
     follows |-> ""]

\* The command of the step before a step of connection c, when it was a
\* capture or a clear of another connection
Follows(c) ==
    IF lastOp.cmd \in {"capture", "clear"} /\ lastOp.conn # c
    THEN lastOp.cmd ELSE ""

\* a check that lets a connection without a token in
token_is_optional(token) == token = AUTH_TOKEN \/ token = None

\* if token != AUTH_TOKEN
token_is_valid(token) == token = AUTH_TOKEN

\* the check for a taken screenshot left out
no_screenshot_unchecked(shot) == FALSE

\* if not last_screenshot_data
no_screenshot(shot) == shot = None

\* the threshold written with one zero too many
screenshot_expired_typo(screenshot_age) == screenshot_age > 3000

\* the threshold compared with >= instead of >
screenshot_expired_at_limit(screenshot_age) == screenshot_age >= 300

\* if screenshot_age > 300
screenshot_expired(screenshot_age) == screenshot_age > 300

\* the cache never used
cache_never_recent(cache, time_since_capture) == FALSE

\* the window compared with <= instead of <
cache_is_recent_at_limit(cache, time_since_capture) ==
    cache # None /\ time_since_capture <= CACHE_DURATION

\* if last_response_cache and time_since_capture < CACHE_DURATION
cache_is_recent(cache, time_since_capture) ==
    cache # None /\ time_since_capture < CACHE_DURATION

\* response = validate_ai_response(raw_response): the normaliser applied to
\* what the engine returned.  Its results for the texts the engine returns
\* under BackendScripts are computed once and looked up.
EngineTexts ==
    {NoTextDetected, PlainAnswer, FencedAnswer, _format_error(TimeoutMessage),
     _format_error(_http_error_message(503)),
     _format_error(<<"Failed to connect to AI service">>), <<>>}
Normalised == [text \in EngineTexts |-> validate_ai_response(text)]
normalise(raw_response) ==
    IF raw_response \in EngineTexts THEN Normalised[raw_response]
    ELSE validate_ai_response(raw_response)

\* capture with an engine that raises when the completion fails: the
\* snapshot is stored, the except branch answers and the cache stays
capture_command_raising(seen, heard, responses) ==
    LET screen_text == capture_and_extract_text(seen)
        a == get_transcription(last_transcription, heard)
        p == process(screen_text, a.text, responses)
        cache == [screen_text |-> screen_text, audio_text |-> a.text,
                  ai_response |-> normalise(p.text)]
    IN [shot |-> [screen_text |-> screen_text, audio_text |-> a.text,
                  timestamp |-> now],
        cache |-> IF p.failed THEN last_response_cache ELSE cache,
        capture_time |-> IF p.failed THEN last_capture_time ELSE now,
        last_transcription |-> a.last_transcription,
        sent |-> IF p.failed
                 THEN <<CaptureFailedError>>
                 ELSE <<ResponseMessage(cache)>>,
        prompt |-> p.prompt,
        process_calls |-> p.process_calls,
        complete_calls |-> p.complete_calls,
        requests |-> p.requests,
        failed |-> p.failed,
        screen_failed |-> seen = Raised,
        audio_failed |-> heard = Raised]

\* The capture branch: the new values of the globals and what was done.
capture_command(seen, heard, responses) ==
    LET screen_text == capture_and_extract_text(seen)
        a == get_transcription(last_transcription, heard)
        audio_text == a.text
        current_time == now
        p == process(screen_text, audio_text, responses)
        response == normalise(p.text)
        cache == [screen_text |-> screen_text, audio_text |-> audio_text,
                  ai_response |-> response]
    IN [shot |-> [screen_text |-> screen_text, audio_text |-> audio_text,
                  timestamp |-> current_time],
        cache |-> cache,
        capture_time |-> current_time,
        last_transcription |-> a.last_transcription,
        sent |-> <<ResponseMessage(cache)>>,
        prompt |-> p.prompt,
        process_calls |-> p.process_calls,
        complete_calls |-> p.complete_calls,
        requests |-> p.requests,
        failed |-> p.failed,
        screen_failed |-> seen = Raised,
        audio_failed |-> heard = Raised]

\* the error sent twice
reply_twice(error) == [sent |-> <<error, error>>, returned |-> FALSE]

\* continue without the error having been sent
continue_without_reply(error) == [sent |-> <<>>, returned |-> FALSE]

\* an error reply followed by break instead of continue
reject_and_break(error) == [sent |-> <<error>>, returned |-> TRUE]

\* await websocket.send_json({"type": "error", ...}); continue
reject_and_continue(error) == [sent |-> <<error>>, returned |-> FALSE]

\* a fresh analysis that stamps the snapshot anew
fresh_analysis_restamping(current_time, screenshot_age, time_since_capture, responses) ==
    LET p == process(last_screenshot_data.screen_text,
                     last_screenshot_data.audio_text, responses)
        cache == [screen_text |-> last_screenshot_data.screen_text,
                  audio_text |-> last_screenshot_data.audio_text,
                  ai_response |-> normalise(p.text)]
    IN [shot |-> [last_screenshot_data EXCEPT !.timestamp = current_time],
        cache |-> cache,
        capture_time |-> current_time,
        sent |-> <<ResponseMessage(cache)>>,
        prompt |-> p.prompt,
        process_calls |-> p.process_calls,
        complete_calls |-> p.complete_calls,
        requests |-> p.requests,
        failed |-> p.failed,
        screenshot_age |-> screenshot_age,
        time_since_capture |-> time_since_capture,
        returned |-> FALSE]

\* The else branch of solve: a fresh analysis of the stored screenshot
\* (main.py 257-279)
fresh_analysis(current_time, screenshot_age, time_since_capture, responses) ==
    LET p == process(last_screenshot_data.screen_text,
                     last_screenshot_data.audio_text, responses)
        response == normalise(p.text)
        cache == [screen_text |-> last_screenshot_data.screen_text,
                  audio_text |-> last_screenshot_data.audio_text,
                  ai_response |-> response]
    IN [shot |-> last_screenshot_data,
        cache |-> cache,
        capture_time |-> current_time,
        sent |-> <<ResponseMessage(cache)>>,
        prompt |-> p.prompt,
        process_calls |-> p.process_calls,
        complete_calls |-> p.complete_calls,
        requests |-> p.requests,
        failed |-> p.failed,
        screenshot_age |-> screenshot_age,
        time_since_capture |-> time_since_capture,
        returned |-> FALSE]

\* The solve branch.  Unchanged globals are returned as they are.
solve_command(responses) ==
    LET keep == [shot |-> last_screenshot_data, cache |-> last_response_cache,
                 capture_time |-> last_capture_time, sent |-> <<>>,
                 prompt |-> <<>>, process_calls |-> 0, complete_calls |-> 0,
                 requests |-> 0, failed |-> FALSE, screenshot_age |-> -1,
                 time_since_capture |-> -1, returned |-> FALSE]
    IN
    IF no_screenshot(last_screenshot_data)
    THEN [keep EXCEPT !.sent = reject_and_continue(NoScreenshotError).sent,
                      !.returned = reject_and_continue(NoScreenshotError).returned]
    ELSE IF last_screenshot_data = None
    \* last_screenshot_data.get raises AttributeError: the outer handler
    THEN [keep EXCEPT !.sent = <<ConnectionErrorMessage>>, !.returned = TRUE]
    ELSE
      LET current_time == now
          screenshot_age == current_time - last_screenshot_data.timestamp
          time_since_capture == current_time - last_capture_time
      IN
      IF screenshot_expired(screenshot_age)
      THEN [keep EXCEPT
                !.sent = reject_and_continue(ScreenshotExpiredError).sent,
                !.returned = reject_and_continue(ScreenshotExpiredError).returned,
                !.screenshot_age = screenshot_age]
      ELSE IF cache_is_recent(last_response_cache, time_since_capture)
      THEN [keep EXCEPT !.sent = <<ResponseMessage(last_response_cache)>>,
                        !.screenshot_age = screenshot_age,
                        !.time_since_capture = time_since_capture]
      ELSE fresh_analysis(current_time, screenshot_age, time_since_capture,
                          responses)

\* The data of the last response among the messages of one step, or what was
\* returned before when the step sent no response
Returned(sent) ==
    IF sent # <<>> /\ sent[Len(sent)].type = "response"
    THEN sent[Len(sent)].data ELSE last_returned

\* The time at which a blocking call that starts now may return
ReturnTimes ==
    {now} \cup {t \in Times : t > now /\ \A u \in Times : u > now => t <= u}

Init ==
    /\ now = Epoch
    /\ last_response_cache = None
    /\ last_capture_time = 0
    /\ last_screenshot_data = None
    /\ active_connections = {}
    /\ last_transcription = <<>>
    /\ pc = [c \in Conns |-> "start"]
    /\ lastOp = Op("init", 0)
    /\ last_returned = None
    /\ NoFrames
    /\ NewTranscriber

\* A client opens the socket with a token (main.py 156-168)
Connect(c) ==
    /\ pc[c] = "start"
    /\ \E token \in Tokens :
         IF ~token_is_valid(token)
         THEN /\ pc' = [pc EXCEPT ![c] = "refused"]
              /\ lastOp' = [Op("connect", c) EXCEPT !.token = token,
                                                    !.close_code = 1008,
                                                    !.returned = TRUE]
              /\ UNCHANGED active_connections
         ELSE /\ pc' = [pc EXCEPT ![c] = "receive"]
              /\ active_connections' = active_connections \cup {c}
              /\ lastOp' = [Op("connect", c) EXCEPT !.token = token,
                                                    !.accepted = TRUE]
    /\ UNCHANGED <<now, last_response_cache, last_capture_time,
                   last_screenshot_data, last_transcription, last_returned>>
    /\ UNCHANGED <<frame, transcriber>>

\* {"type": "capture"} (main.py 178-220)
Capture(c) ==
    /\ pc[c] = "receive"
    /\ \E e \in {capture_command(seen, heard, responses) :
                    seen \in Seen, heard \in Heard,
                    responses \in BackendScripts} :
         /\ last_screenshot_data' = e.shot
         /\ last_response_cache' = e.cache
         /\ last_capture_time' = e.capture_time
         /\ last_transcription' = e.last_transcription
         /\ now' \in (IF e.requests > 0 THEN ReturnTimes ELSE {now})
         /\ lastOp' = [Op("capture", c) EXCEPT
                          !.sent = e.sent, !.prompt = e.prompt,
                          !.screen_calls = 1, !.audio_calls = 1,
                          !.process_calls = e.process_calls,
                          !.complete_calls = e.complete_calls,
                          !.requests = e.requests, !.failed = e.failed,
                          !.screen_failed = e.screen_failed,
                          !.audio_failed = e.audio_failed]
         /\ last_returned' = Returned(e.sent)
    /\ UNCHANGED <<active_connections, pc>>
    /\ UNCHANGED <<frame, transcriber>>

\* {"type": "solve"} (main.py 222-286)
Solve(c) ==
    /\ pc[c] = "receive"
    /\ \E e \in {solve_command(responses) : responses \in BackendScripts} :
         /\ last_screenshot_data' = e.shot
         /\ last_response_cache' = e.cache
         /\ last_capture_time' = e.capture_time
         /\ now' \in (IF e.requests > 0 THEN ReturnTimes ELSE {now})
         /\ pc' = IF e.returned THEN [pc EXCEPT ![c] = "closed"] ELSE pc
         /\ active_connections' =
                IF e.returned THEN active_connections \ {c}
                ELSE active_connections
         /\ lastOp' = [Op("solve", c) EXCEPT
                          !.sent = e.sent, !.prompt = e.prompt,
                          !.process_calls = e.process_calls,
                          !.complete_calls = e.complete_calls,
                          !.requests = e.requests, !.failed = e.failed,
                          !.screenshot_age = e.screenshot_age,
                          !.time_since_capture = e.time_since_capture,
                          !.returned = e.returned,
                          !.follows = Follows(c)]
         /\ last_returned' = Returned(e.sent)
    /\ UNCHANGED last_transcription
    /\ UNCHANGED <<frame, transcriber>>

\* a clear that forgets the reset of the cached answer
Clear_keeping_answer(c) ==
    /\ pc[c] = "receive"
    /\ last_screenshot_data' = None
    /\ lastOp' = [Op("clear", c) EXCEPT !.sent = <<ClearedMessage>>]
    /\ last_returned' = None
    /\ UNCHANGED <<now, last_response_cache, last_capture_time,
                   active_connections, last_transcription, pc>>
    /\ UNCHANGED <<frame, transcriber>>

\* a clear that forgets the snapshot's reset
Clear_keeping_snapshot(c) ==
    /\ pc[c] = "receive"
    /\ last_response_cache' = None
    /\ last_capture_time' = 0
    /\ lastOp' = [Op("clear", c) EXCEPT !.sent = <<ClearedMessage>>]
    /\ last_returned' = None
    /\ UNCHANGED <<now, last_screenshot_data, active_connections,
                   last_transcription, pc>>
    /\ UNCHANGED <<frame, transcriber>>

\* {"type": "clear"} (main.py 288-293)
Clear(c) ==
    /\ pc[c] = "receive"
    /\ last_response_cache' = None
    /\ last_capture_time' = 0
    /\ last_screenshot_data' = None
    /\ lastOp' = [Op("clear", c) EXCEPT !.sent = <<ClearedMessage>>]
    /\ last_returned' = None
    /\ UNCHANGED <<now, active_connections, last_transcription, pc>>
    /\ UNCHANGED <<frame, transcriber>>

\* a stop that resets the cache of the process as clear does
Stop_resetting(c) ==
    /\ pc[c] = "receive"
    /\ pc' = [pc EXCEPT ![c] = "closed"]
    /\ active_connections' = active_connections \ {c}
    /\ last_response_cache' = None
    /\ last_capture_time' = 0
    /\ last_screenshot_data' = None
    /\ lastOp' = [Op("stop", c) EXCEPT !.returned = TRUE]
    /\ UNCHANGED <<now, last_transcription, last_returned>>
    /\ UNCHANGED <<frame, transcriber>>

\* a stop that is acknowledged and leaves the handler in its loop
Stop_acknowledged(c) ==
    /\ pc[c] = "receive"
    /\ lastOp' = [Op("stop", c) EXCEPT !.sent = <<[type |-> "stopped"]>>]
    /\ UNCHANGED <<now, last_response_cache, last_capture_time,
                   last_screenshot_data, active_connections,
                   last_transcription, pc, last_returned>>
    /\ UNCHANGED <<frame, transcriber>>

\* {"type": "stop"}: break, then the finally clause (main.py 295-297, 311-314)
Stop(c) ==
    /\ pc[c] = "receive"
    /\ pc' = [pc EXCEPT ![c] = "closed"]
    /\ active_connections' = active_connections \ {c}
    /\ lastOp' = [Op("stop", c) EXCEPT !.returned = TRUE]
    /\ UNCHANGED <<now, last_response_cache, last_capture_time,
                   last_screenshot_data, last_transcription, last_returned>>
    /\ UNCHANGED <<frame, transcriber>>

\* A text that json.loads rejects, or a JSON value without a "type" member:
\* json.loads or command['type'] raises, the outer except Exception sends
\* the connection error and the handler returns (main.py 175-176, 301-314)
Malformed(c) ==
    /\ pc[c] = "receive"
    /\ pc' = [pc EXCEPT ![c] = "closed"]
    /\ active_connections' = active_connections \ {c}
    /\ \E cmd \in {"not_json", "no_type"} :
         lastOp' = [Op(cmd, c) EXCEPT !.sent = <<ConnectionErrorMessage>>,
                                      !.returned = TRUE]
    /\ UNCHANGED <<now, last_response_cache, last_capture_time,
                   last_screenshot_data, last_transcription, last_returned>>
    /\ UNCHANGED <<frame, transcriber>>

\* A command whose type is none of capture, solve, clear, stop: no branch of
\* the if chain is taken and the loop reads the next command (main.py 178-297)
UnknownType(c) ==
    /\ pc[c] = "receive"
    /\ lastOp' = Op("unknown_type", c)
    /\ UNCHANGED <<now, last_response_cache, last_capture_time,
                   last_screenshot_data, active_connections,
                   last_transcription, pc, last_returned>>
    /\ UNCHANGED <<frame, transcriber>>

\* The client goes away: receive_text raises WebSocketDisconnect
\* (main.py 299-300, 311-314)
Disconnect(c) ==
    /\ pc[c] = "receive"
    /\ pc' = [pc EXCEPT ![c] = "closed"]
    /\ active_connections' = active_connections \ {c}
    /\ lastOp' = [Op("disconnect", c) EXCEPT !.returned = TRUE]
    /\ UNCHANGED <<now, last_response_cache, last_capture_time,
                   last_screenshot_data, last_transcription, last_returned>>
    /\ UNCHANGED <<frame, transcriber>>

\* Time passes while every handler waits in receive_text
Tick ==
    /\ \E t \in Times : t > now /\ now' = t
    /\ lastOp' = Op("tick", 0)
    /\ UNCHANGED <<last_response_cache, last_capture_time,
                   last_screenshot_data, active_connections,
                   last_transcription, pc, last_returned>>
    /\ UNCHANGED <<frame, transcriber>>

Next ==
    \/ \E c \in Conns : Connect(c)
    \/ \E c \in Conns : Capture(c)
    \/ \E c \in Conns : Solve(c)
    \/ \E c \in Conns : Clear(c)
    \/ \E c \in Conns : Stop(c)
    \/ \E c \in Conns : Malformed(c)
    \/ \E c \in Conns : UnknownType(c)
    \/ \E c \in Conns : Disconnect(c)
    \/ Tick

Spec == Init /\ [][Next]_vars

\* ------------------------------------------------------------------------
\* Clients that come one after the other (backend/main.py 156-314)
\* ------------------------------------------------------------------------
\* The clients connect in turn, each after the one before it has gone, and
\* only the first of them sends capture.  The globals of main.py 42-45 live
\* as long as the process, whichever connection is served.
ConnectInTurn(c) ==
    /\ c > 1 => pc[c - 1] \in {"closed", "refused"}
    /\ Connect(c)

NextInTurn ==
    \/ \E c \in Conns : ConnectInTurn(c)
    \/ Capture(1)
    \/ \E c \in Conns : Solve(c)
    \/ \E c \in Conns : Clear(c)
    \/ \E c \in Conns : Stop(c)
    \/ \E c \in Conns : Disconnect(c)
    \/ Tick

SpecInTurn == Init /\ [][NextInTurn]_vars

\* ------------------------------------------------------------------------
\* A command served step by step (backend/main.py 172-286,
\* backend/ai/engine.py 291-326 and 348-388)
\* ------------------------------------------------------------------------
\* The handler of a connection stands at "receive" (awaiting receive_text)
\* or at "screen", "audio" or "request" (inside the blocking call of the
\* screen collaborator, of the audio collaborator, of requests.post).  A
\* blocking call holds the event loop: no other handler moves until it
\* returns.  frame[c] holds the locals of the handler inside a command.
Running(c) == pc[c] \in {"screen", "audio", "request"}
LoopFree == \A c \in Conns : ~Running(c)

\* What the provider may do with one request of a command followed step by
\* step
StepOutcomes ==
    {OkResponse(PlainAnswer), TimeoutResponse, HttpErrorResponse(503),
     ConnectionErrorResponse}

NewFrame(cmd) ==
    [cmd |-> cmd, screen_text |-> <<>>, audio_text |-> <<>>,
     current_time |-> 0, attempt |-> 0, requests |-> 0]

\* the reply is sent and the handler awaits the next command
\* (main.py 211, 230, 243, 256, 278, then 174)
replied(c, f, message) ==
    /\ pc' = [pc EXCEPT ![c] = "receive"]
    /\ frame' = [frame EXCEPT ![c] = None]
    /\ lastOp' = [Op(f.cmd, c) EXCEPT !.sent = <<message>>,
                                      !.requests = f.requests]
    /\ last_returned' = Returned(<<message>>)

\* process has returned raw_response: it is normalised, cached and sent
\* (main.py 196-211, 264-278)
process_returns(c, f, raw_response) ==
    LET cache == [screen_text |-> f.screen_text, audio_text |-> f.audio_text,
                  ai_response |-> normalise(raw_response)]
    IN /\ last_response_cache' = cache
       /\ last_capture_time' = f.current_time
       /\ replied(c, f, ResponseMessage(cache))

\* process is called: the input check, then the first request
\* (engine.py 360-383)
process_called(c, f) ==
    IF input_is_valid(f.screen_text)
    THEN /\ frame' = [frame EXCEPT ![c] = [f EXCEPT !.attempt = 1]]
         /\ pc' = [pc EXCEPT ![c] = "request"]
         /\ lastOp' = Op("process", c)
         /\ UNCHANGED <<last_response_cache, last_capture_time, last_returned>>
    ELSE process_returns(c, f, NoTextDetected)

\* {"type": "capture"} is read (main.py 174-181)
ReceiveCapture(c) ==
    /\ pc[c] = "receive"
    /\ LoopFree
    /\ pc' = [pc EXCEPT ![c] = "screen"]
    /\ frame' = [frame EXCEPT ![c] = NewFrame("capture")]
    /\ lastOp' = Op("receive", c)
    /\ UNCHANGED <<now, last_response_cache, last_capture_time,
                   last_screenshot_data, active_connections,
                   last_transcription, last_returned, transcriber>>

\* capture_and_extract_text returns (main.py 181)
ScreenReturns(c) ==
    /\ pc[c] = "screen"
    /\ \E seen \in Seen :
         frame' = [frame EXCEPT ![c].screen_text = capture_and_extract_text(seen)]
    /\ pc' = [pc EXCEPT ![c] = "audio"]
    /\ lastOp' = Op("screen", c)
    /\ UNCHANGED <<now, last_response_cache, last_capture_time,
                   last_screenshot_data, active_connections,
                   last_transcription, last_returned, transcriber>>

\* get_transcription returns, the snapshot is stored and process is called
\* (main.py 183-195)
AudioReturns(c) ==
    /\ pc[c] = "audio"
    /\ \E heard \in Heard :
         LET a == get_transcription(last_transcription, heard)
             f == [frame[c] EXCEPT !.audio_text = a.text, !.current_time = now]
         IN /\ last_transcription' = a.last_transcription
            /\ last_screenshot_data' =
                   [screen_text |-> f.screen_text, audio_text |-> f.audio_text,
                    timestamp |-> f.current_time]
            /\ process_called(c, f)
    /\ UNCHANGED <<now, active_connections, transcriber>>

\* {"type": "solve"} is read: the rejections, the cached answer or the call
\* of process on the stored snapshot (main.py 222-263)
ReceiveSolve(c) ==
    /\ pc[c] = "receive"
    /\ LoopFree
    /\ IF no_screenshot(last_screenshot_data)
       THEN /\ replied(c, NewFrame("solve"), NoScreenshotError)
            /\ UNCHANGED <<last_response_cache, last_capture_time>>
       ELSE IF screenshot_expired(now - last_screenshot_data.timestamp)
       THEN /\ replied(c, NewFrame("solve"), ScreenshotExpiredError)
            /\ UNCHANGED <<last_response_cache, last_capture_time>>
       ELSE IF cache_is_recent(last_response_cache, now - last_capture_time)
       THEN /\ replied(c, NewFrame("solve"),
                       ResponseMessage(last_response_cache))
            /\ UNCHANGED <<last_response_cache, last_capture_time>>
       ELSE process_called(c, [NewFrame("solve") EXCEPT
                                  !.screen_text = last_screenshot_data.screen_text,
                                  !.audio_text = last_screenshot_data.audio_text,
                                  !.current_time = now])
    /\ UNCHANGED <<now, last_screenshot_data, active_connections,
                   last_transcription, transcriber>>

\* One pass of the for loop of create_chat_completion on what the provider
\* does with its request: the content returned or the message raised, which
\* process turns into its error text (engine.py 386-388), or a retry
request_outcome(r, attempt) ==
    CASE r.kind = "ok" -> [retry |-> FALSE, text |-> r.content]
      [] r.kind = "timeout" ->
           IF timeout_is_final(attempt)
           THEN [retry |-> FALSE, text |-> _format_error(TimeoutMessage)]
           ELSE [retry |-> TRUE, text |-> <<>>]
      [] r.kind = "http" ->
           IF http_error_is_retried(r.status, attempt)
           THEN [retry |-> TRUE, text |-> <<>>]
           ELSE [retry |-> FALSE,
                 text |-> _format_error(_http_error_message(r.status))]
      [] OTHER ->
           [retry |-> FALSE,
            text |-> _format_error(<<"Failed to connect to AI service">>)]

\* One requests.post of create_chat_completion returns or raises
\* (engine.py 291-326): the call is over, with a text, or the loop goes to
\* its next attempt; a loop left without an attempt to go to returns None.
Attempt(c) ==
    /\ pc[c] = "request"
    /\ frame[c].requests < MaxRequests
    /\ \E r \in StepOutcomes :
         LET f == [frame[c] EXCEPT !.requests = @ + 1]
             o == request_outcome(r, f.attempt)
         IN IF o.retry /\ next_attempt(f.attempt) <= MAX_RETRIES
            THEN /\ frame' = [frame EXCEPT ![c] =
                                 [f EXCEPT !.attempt = next_attempt(f.attempt)]]
                 /\ lastOp' = Op("retry", c)
                 /\ UNCHANGED <<pc, last_response_cache, last_capture_time,
                                last_returned>>
            ELSE process_returns(c, f, o.text)
    /\ now' \in ReturnTimes
    /\ UNCHANGED <<last_screenshot_data, active_connections,
                   last_transcription, transcriber>>

\* A client connects with the token, or time passes, while no blocking call
\* holds the loop
ConnectFree(c) == LoopFree /\ Connect(c) /\ pc'[c] = "receive"
TickFree == LoopFree /\ Tick

NextSteps ==
    \/ \E c \in Conns : ConnectFree(c)
    \/ \E c \in Conns : ReceiveCapture(c)
    \/ \E c \in Conns : ScreenReturns(c)
    \/ \E c \in Conns : AudioReturns(c)
    \/ \E c \in Conns : ReceiveSolve(c)
    \/ \E c \in Conns : Attempt(c)
    \/ TickFree

\* Every blocking call returns or times out, so a handler inside one takes
\* its next step.
Fairness ==
    \A c \in Conns :
        /\ WF_vars(ScreenReturns(c))
        /\ WF_vars(AudioReturns(c))
        /\ WF_vars(Attempt(c))

SpecSteps == Init /\ [][NextSteps]_vars /\ Fairness

\* ------------------------------------------------------------------------
\* The engine called on its own (backend/ai/engine.py 348-388)
\* ------------------------------------------------------------------------
\* The screen texts process may be given: blanks, newlines and words of one,
\* four and five characters
ScreenTokens == {SP, NL, "x", "from", "while"}
EngineScreenTexts == UNION {[1..n -> ScreenTokens] : n \in 0..MaxTokens}

\* A caller about to call process with a screen text
InitEngine ==
    /\ now = Epoch
    /\ last_response_cache = None
    /\ last_capture_time = 0
    /\ last_screenshot_data = None
    /\ active_connections = {}
    /\ last_transcription = <<>>
    /\ pc = [c \in Conns |-> "start"]
    /\ \/ lastOp = Op("init", 0)
       \/ \E screen_text \in EngineScreenTexts, responses \in BackendScripts :
            lastOp = [cmd |-> "input", conn |-> 0, screen_text |-> screen_text,
                      audio_text |-> <<>>, responses |-> responses]
    /\ last_returned = None
    /\ NoFrames
    /\ NewTranscriber

\* One call of process, from its input validation to its return
Process ==
    /\ lastOp.cmd = "input"
    /\ lastOp' = [cmd |-> "processed", conn |-> 0,
                  screen_text |-> lastOp.screen_text,
                  audio_text |-> lastOp.audio_text,
                  responses |-> lastOp.responses,
                  result |-> process(lastOp.screen_text, lastOp.audio_text,
                                     lastOp.responses)]
    /\ UNCHANGED <<now, last_response_cache, last_capture_time,
                   last_screenshot_data, active_connections,
                   last_transcription, pc, last_returned>>
    /\ UNCHANGED <<frame, transcriber>>

\* The engine called directly or through the commands of the server
NextEngine ==
    \/ Process
    \/ Next

SpecEngine == InitEngine /\ [][NextEngine]_vars

\* ------------------------------------------------------------------------
\* The completion client called on its own (backend/ai/engine.py 280-326)
\* ------------------------------------------------------------------------
\* HTTP statuses of raise_for_status, those of RETRY_STATUS_CODES among them
ErrorStatuses == {400, 401, 404, 429, 500, 502, 503, 504}

\* What the provider may do with one request.  A timeout is any
\* requests.exceptions.Timeout (reading or connecting), a connection failure
\* a ConnectionError that is not one.
Outcomes ==
    {OkResponse(PlainAnswer), OkResponse(FencedAnswer), TimeoutResponse,
     ConnectionErrorResponse, BadBodyResponse}
        \cup {HttpErrorResponse(status) : status \in ErrorStatuses}

\* The provider's behaviour on the successive requests of one call, one more
\* than the client may make
ProviderScripts == [1..(MAX_RETRIES + 1) -> Outcomes]

\* A caller about to call create_chat_completion against a provider
InitClient ==
    /\ now = Epoch
    /\ last_response_cache = None
    /\ last_capture_time = 0
    /\ last_screenshot_data = None
    /\ active_connections = {}
    /\ last_transcription = <<>>
    /\ pc = [c \in Conns |-> "start"]
    /\ \/ lastOp = Op("init", 0)
       \/ \E responses \in ProviderScripts :
            lastOp = [cmd |-> "script", conn |-> 0, responses |-> responses]
    /\ last_returned = None
    /\ NoFrames
    /\ NewTranscriber

\* One call of create_chat_completion, from its first request to its return
\* or raise
Complete ==
    /\ lastOp.cmd = "script"
    /\ lastOp' = [cmd |-> "complete", conn |-> 0,
                  responses |-> lastOp.responses,
                  result |-> create_chat_completion(lastOp.responses)]
    /\ UNCHANGED <<now, last_response_cache, last_capture_time,
                   last_screenshot_data, active_connections,
                   last_transcription, pc, last_returned>>
    /\ UNCHANGED <<frame, transcriber>>

\* The client called directly or through the commands of the server
NextClient ==
    \/ Complete
    \/ Next

SpecClient == InitClient /\ [][NextClient]_vars

\* ------------------------------------------------------------------------
\* The normaliser called on its own (backend/main.py 50-120)
\* ------------------------------------------------------------------------
\* The pieces a raw model text is made of, one per line of the text unless
\* it is a block: a piece is its kind, its text and, for a fenced block, the
\* content between the newline after the opening fence and the closing fence.
Piece(kind, text, content) == [kind |-> kind, text |-> text, content |-> content]
FencedBlock(lang, content) ==
    Piece("block", <<FENCE>> \o lang \o <<NL>> \o content \o <<FENCE>>, content)

Segments ==
    { Piece("blank", <<>>, <<>>),
      Piece("blank", <<SP>>, <<>>),
      Piece("prose", <<"Use this:">>, <<>>),
      Piece("prose", <<"Done.">>, <<>>),
      Piece("code", <<"def", SP, "x">>, <<>>),
      Piece("code", <<SP, "return", SP, "x">>, <<>>),
      FencedBlock(<<"python">>, <<"return", SP, "x", NL>>),
      FencedBlock(<<>>, <<"x">>),
      FencedBlock(<<>>, <<>>),
      \* a fence that is not followed by a newline
      Piece("inline", <<FENCE, "x", FENCE>>, <<>>) }

SegmentLists == UNION {[1..n -> Segments] : n \in 0..MaxSegments}

\* The raw text of a list of segments: one after the other, a newline between
RawText(segments) ==
    join(<<NL>>, [i \in 1..Len(segments) |-> segments[i].text])

\* json.dumps of a string: the newline is written as backslash n
json_escape(text) ==
    [i \in 1..Len(text) |-> IF text[i] = NL THEN "\\n" ELSE text[i]]

\* The raw text that is the JSON object with the members explanation and
\* python_code
StructuredText(object) ==
    <<"{\"explanation\": \"">> \o json_escape(object.explanation)
        \o <<"\", \"python_code\": \"">> \o json_escape(object.python_code)
        \o <<"\"}">>

Objects ==
    { [explanation |-> <<"Sorts list">>, python_code |-> code] :
        code \in { <<>>, <<"x = 1">>,
                   <<"def", SP, "f(x):", NL, SP, SP, "return", SP, "sorted(x)">> } }

\* What validate_ai_response is called with: a text made of segments, or a
\* structured object
RawInputs ==
    { [cmd |-> "raw", conn |-> 0, raw_content |-> RawText(segments),
       segments |-> segments, object |-> None] : segments \in SegmentLists }
    \cup
    { [cmd |-> "raw", conn |-> 0, raw_content |-> StructuredText(object),
       segments |-> <<>>, object |-> object] : object \in Objects }

InitNormalizer ==
    /\ now = Epoch
    /\ last_response_cache = None
    /\ last_capture_time = 0
    /\ last_screenshot_data = None
    /\ active_connections = {}
    /\ last_transcription = <<>>
    /\ pc = [c \in Conns |-> "start"]
    /\ lastOp \in RawInputs
    /\ last_returned = None
    /\ NoFrames
    /\ NewTranscriber

\* One call of validate_ai_response
Normalize ==
    /\ lastOp.cmd = "raw"
    /\ lastOp' = [cmd |-> "normalized", conn |-> 0,
                  raw_content |-> lastOp.raw_content,
                  segments |-> lastOp.segments,
                  object |-> lastOp.object,
                  result |-> validate_ai_response(lastOp.raw_content)]
    /\ UNCHANGED <<now, last_response_cache, last_capture_time,
                   last_screenshot_data, active_connections,
                   last_transcription, pc, last_returned>>
    /\ UNCHANGED <<frame, transcriber>>

NextNormalizer == Normalize

SpecNormalizer == InitNormalizer /\ [][NextNormalizer]_vars

\* ------------------------------------------------------------------------
\* Continuous recording (backend/audio/transcription.py 189-236)
\* ------------------------------------------------------------------------
\* One caller calls start_continuous_recording and stop_continuous_recording
\* one after the other; each start that finds is_recording false starts a
\* thread that runs record_loop.  A thread stands at "open" (opening the
\* stream), "check" (the test of the while), "read" (in stream.read) or
\* "dead".  The threads share the fields of the transcriber.
server ==
    <<now, last_response_cache, last_capture_time, last_screenshot_data,
      active_connections, last_transcription, pc, last_returned, frame>>

\* The threads that may be started, and those started so far
ThreadIds == 1..MaxThreads
Threads == 1..Len(threads)

\* audio_buffer.append(data), then pop(0) when the buffer is over its size
appended(buffer, data) ==
    LET longer == Append(buffer, data)
    IN IF Len(longer) > MaxBufferSize THEN Tail(longer) ELSE longer

\* start_continuous_recording
start_continuous_recording ==
    /\ caller = "idle"
    /\ IF is_recording
       THEN /\ lastOp' = [cmd |-> "start", conn |-> 0, started |-> FALSE]
            /\ UNCHANGED <<is_recording, audio_buffer, threads,
                           recording_thread>>
       ELSE /\ Len(threads) < MaxThreads
            /\ is_recording' = TRUE
            /\ audio_buffer' = <<>>
            /\ threads' = Append(threads, "open")
            /\ recording_thread' = Len(threads) + 1
            /\ lastOp' = [cmd |-> "start", conn |-> 0, started |-> TRUE]
    /\ UNCHANGED <<caller, server>>

\* stop_continuous_recording up to the join of the recording thread
stop_continuous_recording ==
    /\ caller = "idle"
    /\ IF ~is_recording
       THEN UNCHANGED <<is_recording, caller>>
       ELSE /\ is_recording' = FALSE
            /\ caller' = IF recording_thread # 0 THEN "join" ELSE "idle"
    /\ lastOp' = [cmd |-> "stop", conn |-> 0, stopped |-> is_recording]
    /\ UNCHANGED <<recording_thread, audio_buffer, threads, server>>

\* recording_thread.join(timeout=1.0) returns: the thread has ended, or one
\* second has gone by and it has not
join_returns ==
    /\ caller = "join"
    /\ caller' = "idle"
    /\ lastOp' = [cmd |-> "join", conn |-> 0,
                  timed_out |-> threads[recording_thread] # "dead"]
    /\ UNCHANGED <<is_recording, recording_thread, audio_buffer, threads,
                   server>>

\* record_loop: self.audio.open(...) returns the stream or raises
open_stream(t) ==
    /\ t \in Threads
    /\ threads[t] = "open"
    /\ \/ /\ threads' = [threads EXCEPT ![t] = "check"]
          /\ UNCHANGED is_recording
       \/ /\ threads' = [threads EXCEPT ![t] = "dead"]
          /\ is_recording' = FALSE
    /\ lastOp' = [cmd |-> "open", conn |-> t]
    /\ UNCHANGED <<recording_thread, audio_buffer, caller, server>>

\* record_loop: while self.is_recording, and the closing of the stream
\* after the loop
loop_test(t) ==
    /\ t \in Threads
    /\ threads[t] = "check"
    /\ threads' = [threads EXCEPT ![t] = IF is_recording THEN "read" ELSE "dead"]
    /\ lastOp' = [cmd |-> "test", conn |-> t]
    /\ UNCHANGED <<is_recording, recording_thread, audio_buffer, caller,
                   server>>

\* record_loop: stream.read returns a chunk, which is appended to the
\* buffer of the transcriber, or raises
read_chunk(t) ==
    /\ t \in Threads
    /\ threads[t] = "read"
    /\ \/ /\ audio_buffer' = appended(audio_buffer, t)
          /\ threads' = [threads EXCEPT ![t] = "check"]
          /\ UNCHANGED is_recording
       \/ /\ threads' = [threads EXCEPT ![t] = "dead"]
          /\ is_recording' = FALSE
          /\ UNCHANGED audio_buffer
    /\ lastOp' = [cmd |-> "read", conn |-> t]
    /\ UNCHANGED <<recording_thread, caller, server>>

InitRecorder == Init

NextRecorder ==
    \/ start_continuous_recording
    \/ stop_continuous_recording
    \/ join_returns
    \/ \E t \in ThreadIds : open_stream(t)
    \/ \E t \in ThreadIds : loop_test(t)
    \/ \E t \in ThreadIds : read_chunk(t)

SpecRecorder == InitRecorder /\ [][NextRecorder]_vars

\* ------------------------------------------------------------------------
\* Properties
\* ------------------------------------------------------------------------
CacheVars == <<last_response_cache, last_capture_time, last_screenshot_data>>

\* the step made no call to the screen, audio or completion collaborators
NoExternalCall(op) ==
    /\ op.screen_calls = 0
    /\ op.audio_calls = 0
    /\ op.process_calls = 0
    /\ op.complete_calls = 0
    /\ op.requests = 0

IsErrorReply(sent) == Len(sent) = 1 /\ sent[1].type = "error"
IsResponseReply(sent) == Len(sent) = 1 /\ sent[1].type = "response"

\* C1: a solve issued while last_screenshot_data is None is answered with
\* the "Take a screenshot first" error, calls no collaborator (no capture,
\* no model call) and leaves the cache as it was.
C1_SolveWithoutSnapshotRejected ==
    [][(lastOp'.cmd = "solve" /\ last_screenshot_data = None) =>
          /\ lastOp'.sent = <<NoScreenshotError>>
          /\ NoExternalCall(lastOp')
          /\ UNCHANGED CacheVars
          /\ last_screenshot_data' = None]_vars

C1_Witness ==
    /\ lastOp.cmd = "solve"
    /\ lastOp.sent = <<NoScreenshotError>>
    /\ last_screenshot_data = None

\* C2: a solve issued when the snapshot is older than 300 s is answered with
\* the "Screenshot expired" error and makes no model call, whatever the
\* cache holds.
C2_StaleSnapshotRejected ==
    [][(/\ lastOp'.cmd = "solve"
        /\ last_screenshot_data # None
        /\ now - last_screenshot_data.timestamp > 300) =>
          /\ lastOp'.sent = <<ScreenshotExpiredError>>
          /\ NoExternalCall(lastOp')
          /\ UNCHANGED CacheVars]_vars

\* the expired reply was given although a cached answer younger than
\* CACHE_DURATION existed
C2_Witness ==
    /\ lastOp.cmd = "solve"
    /\ lastOp.sent = <<ScreenshotExpiredError>>
    /\ last_response_cache # None
    /\ now - last_capture_time < CACHE_DURATION

\* C3: a solve issued with a snapshot that is not expired and a cached
\* answer stamped less than CACHE_DURATION ago replies with the data that
\* was returned last, calls no collaborator and changes nothing in the cache.
C3_FreshAnswerReused ==
    [][(/\ lastOp'.cmd = "solve"
        /\ last_screenshot_data # None
        /\ now - last_screenshot_data.timestamp <= 300
        /\ last_response_cache # None
        /\ now - last_capture_time < CACHE_DURATION) =>
          /\ lastOp'.sent = <<ResponseMessage(last_returned)>>
          /\ last_returned # None
          /\ NoExternalCall(lastOp')
          /\ UNCHANGED CacheVars]_vars

C3_Witness ==
    /\ lastOp.cmd = "solve"
    /\ IsResponseReply(lastOp.sent)
    /\ lastOp.process_calls = 0
    /\ lastOp.time_since_capture > 0
    /\ lastOp.time_since_capture < CACHE_DURATION

\* C4: whenever a cached answer exists it belongs to the current snapshot
\* (same screen_text and audio_text, stamped not before the snapshot), the
\* texts given to the engine are the cached ones, and after every capture,
\* also one whose completion failed, the cache is the entry this capture
\* built and sent.
C4_AnswerFromCurrentSnapshot ==
    /\ last_response_cache # None =>
          /\ last_screenshot_data # None
          /\ last_response_cache.screen_text = last_screenshot_data.screen_text
          /\ last_response_cache.audio_text = last_screenshot_data.audio_text
          /\ last_capture_time >= last_screenshot_data.timestamp
    /\ (lastOp.cmd \in {"capture", "solve"} /\ lastOp.process_calls = 1) =>
          /\ last_response_cache # None
          /\ lastOp.sent = <<ResponseMessage(last_response_cache)>>
          /\ lastOp.prompt # <<>> =>
                /\ lastOp.prompt[1].screen_text = last_response_cache.screen_text
                /\ lastOp.prompt[1].audio_text = last_response_cache.audio_text
    /\ lastOp.cmd = "capture" =>
          /\ last_response_cache # None
          /\ last_capture_time = last_screenshot_data.timestamp

\* a capture whose completion failed has replaced the cache
C4_Witness ==
    /\ lastOp.cmd = "capture"
    /\ lastOp.failed
    /\ last_response_cache # None
    /\ last_screenshot_data.timestamp > Epoch
    /\ last_capture_time = last_screenshot_data.timestamp

\* C5: a payload that is not JSON, has no type or has an unknown type is
\* answered with one error reply and changes neither the cache nor the
\* session: the connection stays open.
C5_MalformedRejectedInPlace ==
    [][lastOp'.cmd \in {"not_json", "no_type", "unknown_type"} =>
          /\ IsErrorReply(lastOp'.sent)
          /\ UNCHANGED CacheVars
          /\ pc'[lastOp'.conn] = "receive"
          /\ lastOp'.conn \in active_connections']_vars

\* C6: when the completion call fails during capture or solve the reply is
\* an error envelope and the connection stays open.
C6_CompletionFailureIsErrorReply ==
    (lastOp.cmd \in {"capture", "solve"} /\ lastOp.failed) =>
        /\ IsErrorReply(lastOp.sent)
        /\ pc[lastOp.conn] = "receive"

\* C7: a connection that presents no token or another token than AUTH_TOKEN
\* is closed with code 1008 without being accepted; it is never among the
\* active connections, no later step is a command of it, and the step calls
\* no collaborator and leaves the cache alone.
C7_BadTokenRefused ==
    [][/\ (lastOp'.cmd = "connect" /\ lastOp'.token # AUTH_TOKEN) =>
            /\ lastOp'.close_code = 1008
            /\ ~lastOp'.accepted
            /\ lastOp'.sent = <<>>
            /\ pc'[lastOp'.conn] = "refused"
            /\ lastOp'.conn \notin active_connections'
            /\ NoExternalCall(lastOp')
            /\ UNCHANGED CacheVars
       /\ \A c \in Conns : pc[c] = "refused" =>
            /\ pc'[c] = "refused"
            /\ c \notin active_connections'
            /\ lastOp'.conn # c]_vars

\* a connection was refused while another one worked on the cache
C7_Witness ==
    /\ lastOp.cmd = "connect"
    /\ lastOp.token # AUTH_TOKEN
    /\ pc[lastOp.conn] = "refused"
    /\ last_response_cache # None

\* C8 as stated: every capture calls the screen and audio collaborators once
\* and the completion client exactly once, caches the result and returns it.
C8_CaptureCallsEachOnce ==
    lastOp.cmd = "capture" =>
        /\ lastOp.screen_calls = 1
        /\ lastOp.audio_calls = 1
        /\ lastOp.complete_calls = 1
        /\ lastOp.sent = <<ResponseMessage(last_response_cache)>>

\* C8 amended: every capture calls the screen and audio collaborators once
\* and the engine once; the engine calls the completion client exactly once
\* when the screen text has at least 5 characters after trimming and not at
\* all otherwise; the result is cached and returned.
C8_CaptureCallsOnceIfText ==
    lastOp.cmd = "capture" =>
        /\ lastOp.screen_calls = 1
        /\ lastOp.audio_calls = 1
        /\ lastOp.process_calls = 1
        /\ lastOp.complete_calls =
              IF len(strip(last_screenshot_data.screen_text)) >= 5 THEN 1 ELSE 0
        /\ lastOp.requests <= MAX_RETRIES * lastOp.complete_calls
        /\ lastOp.sent = <<ResponseMessage(last_response_cache)>>

\* a capture of a screen without text made no completion call
C8_Witness ==
    /\ lastOp.cmd = "capture"
    /\ lastOp.complete_calls = 0
    /\ IsResponseReply(lastOp.sent)

\* C9 as stated: a solve issued with a valid snapshot and a cached answer
\* stamped at most CACHE_DURATION ago, the limit included, returns the
\* cached answer without a completion call.
C9_FreshnessInclusive ==
    [][(/\ lastOp'.cmd = "solve"
        /\ last_screenshot_data # None
        /\ now - last_screenshot_data.timestamp <= 300
        /\ last_response_cache # None
        /\ now - last_capture_time <= CACHE_DURATION) =>
          /\ lastOp'.sent = <<ResponseMessage(last_response_cache)>>
          /\ lastOp'.complete_calls = 0]_vars

\* C9 amended: the limit is excluded.  With a valid snapshot and a cached
\* answer, solve reuses the answer iff it was stamped less than
\* CACHE_DURATION ago; at exactly CACHE_DURATION and later it runs the
\* engine again and stamps the new answer with the time of this solve.
C9_FreshnessExclusive ==
    [][(/\ lastOp'.cmd = "solve"
        /\ last_screenshot_data # None
        /\ now - last_screenshot_data.timestamp <= 300
        /\ last_response_cache # None) =>
          IF now - last_capture_time < CACHE_DURATION
          THEN /\ lastOp'.process_calls = 0
               /\ lastOp'.sent = <<ResponseMessage(last_response_cache)>>
               /\ UNCHANGED CacheVars
          ELSE /\ lastOp'.process_calls = 1
               /\ last_capture_time' = now
               /\ lastOp'.sent = <<ResponseMessage(last_response_cache')>>]_vars

\* a solve exactly CACHE_DURATION after the stamp called the completion client
C9_Witness ==
    /\ lastOp.cmd = "solve"
    /\ lastOp.time_since_capture = CACHE_DURATION
    /\ lastOp.complete_calls = 1

\* C10: solve rejects a snapshot as expired iff its age is more than 300 s;
\* at exactly 300 s it is accepted.
C10_StalenessInclusive ==
    [][(lastOp'.cmd = "solve" /\ last_screenshot_data # None) =>
          (lastOp'.sent = <<ScreenshotExpiredError>>
              <=> now - last_screenshot_data.timestamp > 300)]_vars

\* a solve on a snapshot exactly 300 s old was answered with a response
C10_Witness ==
    /\ lastOp.cmd = "solve"
    /\ lastOp.screenshot_age = 300
    /\ IsResponseReply(lastOp.sent)


\* C11: a clear sets last_screenshot_data and last_response_cache to None
\* and last_capture_time to 0, answers with the single message
\* {"type": "cleared"} and calls none of the screen, audio and completion
\* collaborators; a solve that is the next step after a clear is answered
\* with the "Take a screenshot first" error.
C11_ClearResetsEverything ==
    [][/\ lastOp'.cmd = "clear" =>
            /\ last_screenshot_data' = None
            /\ last_response_cache' = None
            /\ last_capture_time' = 0
            /\ lastOp'.sent = <<ClearedMessage>>
            /\ NoExternalCall(lastOp')
       /\ (lastOp.cmd = "clear" /\ lastOp'.cmd = "solve") =>
            /\ lastOp'.sent = <<NoScreenshotError>>
            /\ NoExternalCall(lastOp')]_vars

\* a clear that had a snapshot and an answer to drop (a capture has run:
\* only capture stores a transcription)
C11_Witness ==
    /\ lastOp.cmd = "clear"
    /\ lastOp.sent = <<ClearedMessage>>
    /\ last_transcription # <<>>
    /\ last_screenshot_data = None
    /\ last_response_cache = None
    /\ last_capture_time = 0


\* the step met one of the recoverable errors: a solve without snapshot or
\* with an expired one, a capture whose screen or audio collaborator failed,
\* a capture or solve whose completion call failed
RecoverableError(op) ==
    /\ op.cmd \in {"capture", "solve"}
    /\ \/ op.sent = <<NoScreenshotError>>
       \/ op.sent = <<ScreenshotExpiredError>>
       \/ op.screen_failed
       \/ op.audio_failed
       \/ op.failed

\* C12: no recoverable error closes the session: the step that meets it
\* sends one reply, the handler does not return, the connection stays in
\* active_connections and its handler is back at receive_text, where every
\* command is accepted.
C12_RecoverableErrorKeepsSession ==
    [][RecoverableError(lastOp') =>
          /\ Len(lastOp'.sent) = 1
          /\ ~lastOp'.returned
          /\ pc'[lastOp'.conn] = "receive"
          /\ lastOp'.conn \in active_connections'
          /\ \A d \in Conns : pc'[d] = pc[d]]_vars

\* a solve rejected for its expired snapshot left its connection open and
\* waiting for the next command
C12_Witness ==
    /\ lastOp.cmd = "solve"
    /\ lastOp.sent = <<ScreenshotExpiredError>>
    /\ pc[lastOp.conn] = "receive"
    /\ lastOp.conn \in active_connections


\* C13: when the screen or the audio collaborator fails during a capture,
\* the client receives the "Capture failed" error and no response, and the
\* connection stays open.
C13_CollaboratorFailureIsErrorReply ==
    (lastOp.cmd = "capture" /\ (lastOp.screen_failed \/ lastOp.audio_failed)) =>
        /\ lastOp.sent = <<CaptureFailedError>>
        /\ pc[lastOp.conn] = "receive"
        /\ lastOp.conn \in active_connections


\* the first request of the call met a timeout or a status of
\* {429, 500, 502, 503, 504}
FirstIsRetryable(responses) ==
    \/ responses[1].kind = "timeout"
    \/ /\ responses[1].kind = "http"
       /\ responses[1].status \in {429, 500, 502, 503, 504}

\* C14: one call of create_chat_completion makes at least 1 and at most 2
\* HTTP requests whatever the provider does, and a capture or solve command
\* calls it at most once and so causes at most 2 HTTP requests.
C14_AtMostTwoRequests ==
    /\ lastOp.cmd = "complete" => lastOp.result.requests \in {1, 2}
    /\ lastOp.cmd \in {"capture", "solve"} =>
          /\ lastOp.complete_calls <= 1
          /\ lastOp.requests <= 2
          /\ lastOp.complete_calls = 0 => lastOp.requests = 0

\* a call whose two requests both failed in a retryable way, with a provider
\* that would have failed a third time as well
C14_Witness ==
    /\ lastOp.cmd = "complete"
    /\ lastOp.responses[1].kind = "timeout"
    /\ lastOp.responses[2].kind = "http"
    /\ lastOp.responses[2].status = 503
    /\ lastOp.responses[3].kind = "timeout"
    /\ lastOp.result.requests = 2
    /\ lastOp.result.raised

\* C15: a second request is made exactly when the first one met a timeout
\* or a status of {429, 500, 502, 503, 504}; a first request that meets any
\* other error status or a connection failure makes the call raise after
\* exactly 1 request, and a second request is the last whatever it meets.
C15_RetryOnlyFirstRetryable ==
    lastOp.cmd = "complete" =>
        /\ lastOp.result.requests = 2 <=> FirstIsRetryable(lastOp.responses)
        /\ lastOp.result.requests = 1 <=> ~FirstIsRetryable(lastOp.responses)
        /\ ( \/ lastOp.responses[1].kind = "connection"
             \/ /\ lastOp.responses[1].kind = "http"
                /\ ~FirstIsRetryable(lastOp.responses) ) =>
              /\ lastOp.result.raised
              /\ lastOp.result.requests = 1

\* a 401 on the first request, with a provider that would have answered the
\* second: the call raised after 1 request
C15_Witness ==
    /\ lastOp.cmd = "complete"
    /\ lastOp.responses[1].kind = "http"
    /\ lastOp.responses[1].status = 401
    /\ lastOp.responses[2].kind = "ok"
    /\ lastOp.result.raised
    /\ lastOp.result.value = <<"Invalid API key">>
    /\ lastOp.result.requests = 1

\* C16: when the first request meets a timeout or a status of
\* {429, 500, 502, 503, 504} and the second one is answered with HTTP 200
\* and a completion, the call returns the content of the second response
\* after exactly 2 requests.
C16_RetryThenSuccess ==
    ( /\ lastOp.cmd = "complete"
      /\ FirstIsRetryable(lastOp.responses)
      /\ lastOp.responses[2].kind = "ok" ) =>
        /\ ~lastOp.result.raised
        /\ lastOp.result.value = lastOp.responses[2].content
        /\ lastOp.result.requests = 2

\* a timeout, then the fenced answer
C16_Witness ==
    /\ lastOp.cmd = "complete"
    /\ lastOp.responses[1].kind = "timeout"
    /\ lastOp.responses[2] = OkResponse(FencedAnswer)
    /\ lastOp.result.value = FencedAnswer
    /\ lastOp.result.requests = 2


\* C17: a stop makes the handler leave its loop and return without a reply:
\* the connection is no longer among the active connections, and from then
\* on no step is a command of that connection and it never becomes active
\* again.
C17_StopClosesConnection ==
    [][/\ lastOp'.cmd = "stop" =>
            /\ pc[lastOp'.conn] = "receive"
            /\ pc'[lastOp'.conn] = "closed"
            /\ lastOp'.returned
            /\ lastOp'.sent = <<>>
            /\ lastOp'.conn \notin active_connections'
            /\ UNCHANGED CacheVars
       /\ \A c \in Conns : pc[c] = "closed" =>
            /\ pc'[c] = "closed"
            /\ lastOp'.conn # c
            /\ c \notin active_connections']_vars

\* a connection stopped after a capture, while another one is still served
C17_Witness ==
    /\ lastOp.cmd = "stop"
    /\ pc[lastOp.conn] = "closed"
    /\ lastOp.conn \notin active_connections
    /\ active_connections # {}
    /\ last_screenshot_data # None

\* The commands a client can send on an open connection
Commands ==
    {"capture", "solve", "clear", "stop", "unknown_type", "not_json",
     "no_type"}

\* C18: a command of a connection is read only while its handler waits in
\* receive_text, and the step that reads it also makes its cache updates and
\* sends its reply, leaving the handler at receive_text again or returned:
\* no command of a connection is read while another one of it is unfinished,
\* and no step belongs to two connections.
C18_OneCommandAtATime ==
    [][lastOp'.cmd \in Commands =>
          /\ pc[lastOp'.conn] = "receive"
          /\ pc'[lastOp'.conn] \in {"receive", "closed"}
          /\ lastOp'.returned <=> pc'[lastOp'.conn] = "closed"
          /\ lastOp'.cmd \in {"capture", "solve", "clear"} =>
                Len(lastOp'.sent) = 1
          /\ \A d \in Conns \ {lastOp'.conn} : pc'[d] = pc[d]]_vars

\* a solve served from the cache on a connection that waits for its next
\* command while the other connection waits too
C18_Witness ==
    /\ lastOp.cmd = "solve"
    /\ IsResponseReply(lastOp.sent)
    /\ lastOp.process_calls = 0
    /\ \A c \in Conns : pc[c] = "receive"

\* C19: the cache is shared by all connections.  A solve that is the next
\* step after a capture of another connection returns the screen text and
\* audio text of that capture, and while the answer is recent the very
\* message the capture sent, without calling anything; a solve that is the
\* next step after a clear of another connection gets the "Take a screenshot
\* first" error.
C19_CacheSharedByConnections ==
    [][/\ ( /\ lastOp.cmd = "capture"
            /\ lastOp'.cmd = "solve"
            /\ lastOp'.conn # lastOp.conn
            /\ now - last_screenshot_data.timestamp <= 300 ) =>
              /\ IsResponseReply(lastOp'.sent)
              /\ lastOp'.sent[1].data.screen_text =
                     lastOp.sent[1].data.screen_text
              /\ lastOp'.sent[1].data.audio_text =
                     lastOp.sent[1].data.audio_text
              /\ now - last_capture_time < CACHE_DURATION =>
                    /\ lastOp'.sent = lastOp.sent
                    /\ NoExternalCall(lastOp')
       /\ ( /\ lastOp.cmd = "clear"
            /\ lastOp'.cmd = "solve"
            /\ lastOp'.conn # lastOp.conn ) =>
              lastOp'.sent = <<NoScreenshotError>>]_vars

\* a solve that got from the cache what the capture of the other connection
\* had just stored
C19_Witness ==
    /\ lastOp.cmd = "solve"
    /\ lastOp.follows = "capture"
    /\ IsResponseReply(lastOp.sent)
    /\ lastOp.process_calls = 0
    /\ lastOp.sent[1].data = last_response_cache
    /\ lastOp.sent[1].data.screen_text = <<"Two Sum problem">>
    /\ lastOp.sent[1].data.audio_text = <<"use a hash map">>

\* the data of a response has the fields screen_text, audio_text and
\* ai_response
HasDataFields(message) ==
    /\ DOMAIN message = {"type", "data"}
    /\ DOMAIN message.data = {"screen_text", "audio_text", "ai_response"}

\* C20 as stated: every response of a capture or solve has data with exactly
\* the fields screen_text, audio_text and ai_response, and ai_response has
\* exactly the fields explanation and code.
C20_AnswerFieldsExplanationCode ==
    (lastOp.cmd \in {"capture", "solve"} /\ IsResponseReply(lastOp.sent)) =>
        /\ HasDataFields(lastOp.sent[1])
        /\ DOMAIN lastOp.sent[1].data.ai_response = {"explanation", "code"}

\* C20: every response of a capture or solve is the only message of its
\* step and has data with exactly the fields screen_text, audio_text and
\* ai_response, where ai_response has exactly the fields explanation and
\* python_code.
C20_AnswerFieldsExplanationPythonCode ==
    ( /\ lastOp.cmd \in {"capture", "solve"}
      /\ \E i \in 1..Len(lastOp.sent) : lastOp.sent[i].type = "response" ) =>
        /\ IsResponseReply(lastOp.sent)
        /\ HasDataFields(lastOp.sent[1])
        /\ DOMAIN lastOp.sent[1].data.ai_response =
              {"explanation", "python_code"}

\* a solve that regenerated an answer with a code block
C20_Witness ==
    /\ lastOp.cmd = "solve"
    /\ IsResponseReply(lastOp.sent)
    /\ lastOp.complete_calls = 1
    /\ lastOp.sent[1].data.ai_response.python_code # <<>>
    /\ lastOp.sent[1].data.ai_response.explanation # <<>>


\* C21: a raw text that is a structured object with the members explanation
\* and python_code is normalised into exactly those two values.
C21_StructuredObjectVerbatim ==
    (lastOp.cmd = "normalized" /\ lastOp.object # None) =>
        /\ lastOp.result.explanation = lastOp.object.explanation
        /\ lastOp.result.python_code = lastOp.object.python_code


\* the contents of the fenced blocks of a list of segments, in order
RECURSIVE BlockContents(_)
BlockContents(segments) ==
    IF segments = <<>> THEN <<>>
    ELSE (IF Head(segments).kind = "block" THEN <<Head(segments).content>>
          ELSE <<>>) \o BlockContents(Tail(segments))

\* the raw text is made of lines and complete fenced blocks, one at least,
\* and is no structured object
HasFencedBlocks(op) ==
    /\ op.object = None
    /\ \A i \in 1..Len(op.segments) : op.segments[i].kind # "inline"
    /\ BlockContents(op.segments) # <<>>

\* C22 as stated: when the raw text contains fenced blocks, the code is the
\* inner content of the first block only, also when further blocks follow.
C22_CodeIsFirstBlock ==
    (lastOp.cmd = "normalized" /\ HasFencedBlocks(lastOp)) =>
        lastOp.result.python_code = strip(BlockContents(lastOp.segments)[1])

\* C22: when the raw text contains fenced blocks (fence, optional language
\* tag, newline, content, fence), the code is the trimmed inner contents of
\* all the blocks in their order, joined by a blank line; it is the trimmed
\* content of the block when there is one block only.
C22_CodeIsAllBlocksJoined ==
    (lastOp.cmd = "normalized" /\ HasFencedBlocks(lastOp)) =>
        LET contents == BlockContents(lastOp.segments)
        IN /\ lastOp.result.python_code =
                 join(<<NL, NL>>, [i \in 1..Len(contents) |-> strip(contents[i])])
           /\ Len(contents) = 1 =>
                 lastOp.result.python_code = strip(contents[1])

\* two blocks with a line between them, both in the code
C22_Witness ==
    /\ lastOp.cmd = "normalized"
    /\ Len(lastOp.segments) = 3
    /\ lastOp.segments[1] = FencedBlock(<<"python">>, <<"return", SP, "x", NL>>)
    /\ lastOp.segments[2].kind = "prose"
    /\ lastOp.segments[3] = FencedBlock(<<>>, <<"x">>)
    /\ lastOp.result.python_code = <<"return", SP, "x", NL, NL, "x">>

\* C23: the normaliser never returns both fields empty; for an empty or
\* whitespace-only text and for a text that is nothing but fenced blocks
\* without content, the explanation is the fixed sentinel and the code is
\* empty.
C23_NeverBothEmpty ==
    lastOp.cmd = "normalized" =>
        /\ ~(lastOp.result.explanation = <<>> /\ lastOp.result.python_code = <<>>)
        /\ ( \/ strip(lastOp.raw_content) = <<>>
             \/ /\ lastOp.segments # <<>>
                /\ \A i \in 1..Len(lastOp.segments) :
                       lastOp.segments[i] = FencedBlock(<<>>, <<>>) ) =>
              /\ lastOp.result.explanation = NoResponseText
              /\ lastOp.result.python_code = <<>>

\* nothing of the raw text is left for the explanation: it is made of fenced
\* blocks and blank lines only, or of code lines only
NothingButCode(op) ==
    /\ op.object = None
    /\ \/ \A i \in 1..Len(op.segments) : op.segments[i].kind \in {"block", "blank"}
       \/ \A i \in 1..Len(op.segments) : op.segments[i].kind = "code"

\* C24: whenever the normaliser returns code it returns an explanation, and
\* the explanation is "Here's the solution:" when the raw text has nothing
\* but the code.
C24_CodeHasExplanation ==
    (lastOp.cmd = "normalized" /\ lastOp.result.python_code # <<>>) =>
        /\ lastOp.result.explanation # <<>>
        /\ NothingButCode(lastOp) => lastOp.result.explanation = LeadInText

\* a text that is one fenced block and a blank line
C24_Witness ==
    /\ lastOp.cmd = "normalized"
    /\ Len(lastOp.segments) = 2
    /\ lastOp.segments[1] = FencedBlock(<<"python">>, <<"return", SP, "x", NL>>)
    /\ lastOp.segments[2].kind = "blank"
    /\ lastOp.result.python_code = <<"return", SP, "x">>
    /\ lastOp.result.explanation = LeadInText

\* the line taken on its own is code: it is indented and begins with a
\* keyword, or it begins with def or class
IsCodeLine(line) == indented_keyword(line) \/ definition_start(line)

\* the lines of a text that are not blank and are, or are not, code lines,
\* in their order
RECURSIVE LinesOf(_, _)
LinesOf(lines, code) ==
    IF lines = <<>> THEN <<>>
    ELSE (IF strip(Head(lines)) # <<>> /\ IsCodeLine(Head(lines)) = code
          THEN <<Head(lines)>> ELSE <<>>)
            \o LinesOf(Tail(lines), code)

\* the lines of a text that are not blank
RECURSIVE NonBlankLines(_)
NonBlankLines(lines) ==
    IF lines = <<>> THEN <<>>
    ELSE (IF strip(Head(lines)) # <<>> THEN <<Head(lines)>> ELSE <<>>)
            \o NonBlankLines(Tail(lines))

\* the heuristic step applies: no fence, a def, class or function marker
HeuristicApplies(op) ==
    /\ op.object = None
    /\ \A i \in 1..Len(op.raw_content) : op.raw_content[i] # FENCE
    /\ has_definition(op.raw_content)

\* C29: in the heuristic step each line is classified on its own: leaving
\* blank lines aside, the code is the code lines in their order and the
\* explanation the other lines in their order (or the lead-in when there is
\* none), also for a line that follows a code line.
C29_LinesClassifiedOnTheirOwn ==
    (lastOp.cmd = "normalized" /\ HeuristicApplies(lastOp)) =>
        LET lines == split(lastOp.raw_content)
            code == LinesOf(lines, TRUE)
            explanation == LinesOf(lines, FALSE)
        IN /\ NonBlankLines(split(lastOp.result.python_code)) = code
           /\ NonBlankLines(split(lastOp.result.explanation)) =
                 IF explanation = <<>> /\ code # <<>> THEN <<LeadInText>>
                 ELSE explanation


\* the step before stored an answer and the snapshot it belongs to has not
\* expired
AnswerJustStored ==
    /\ lastOp.cmd \in {"capture", "solve"}
    /\ lastOp.process_calls = 1
    /\ now - last_screenshot_data.timestamp <= 300

\* C25 as stated: the freshness window starts when the answer is stored, so
\* a solve that is the next step after a capture or regenerating solve
\* reuses the answer that step stored, however long its completion call
\* took.
C25_WindowStartsAtStore ==
    [][(AnswerJustStored /\ lastOp'.cmd = "solve") =>
          /\ lastOp'.sent = lastOp.sent
          /\ NoExternalCall(lastOp')]_vars

\* C25: the freshness window starts when the command that generates the
\* answer reads the clock, before its completion call: the generation time
\* it stores is that reading, and a solve that is the next step reuses the
\* stored answer exactly when less than CACHE_DURATION seconds have passed
\* since that reading, the duration of the completion call included.
C25_WindowStartsBeforeCompletion ==
    [][/\ (lastOp'.cmd \in {"capture", "solve"} /\ lastOp'.process_calls = 1) =>
            last_capture_time' = now
       /\ (AnswerJustStored /\ lastOp'.cmd = "solve") =>
            /\ (lastOp'.sent = lastOp.sent /\ NoExternalCall(lastOp'))
                  <=> now - last_capture_time < CACHE_DURATION
            /\ now - last_capture_time >= CACHE_DURATION =>
                  lastOp'.process_calls = 1]_vars

\* a solve right after the capture of another connection whose completion
\* call took longer than the window: the answer is generated again
C25_Witness ==
    /\ lastOp.cmd = "solve"
    /\ lastOp.follows = "capture"
    /\ lastOp.process_calls = 1
    /\ lastOp.complete_calls = 1
    /\ lastOp.time_since_capture >= CACHE_DURATION
    /\ lastOp.screenshot_age = lastOp.time_since_capture


\* C26: a solve that generates the answer again gives the engine the stored
\* snapshot's screen_text and audio_text, calls neither the screen nor the
\* audio collaborator, and leaves the snapshot, its timestamp included, and
\* the stored transcription as they were; the cached answer is replaced and
\* stamped with the time of the solve.
C26_RegenerationKeepsSnapshot ==
    [][(lastOp'.cmd = "solve" /\ lastOp'.process_calls = 1) =>
          /\ lastOp'.screen_calls = 0
          /\ lastOp'.audio_calls = 0
          /\ last_screenshot_data # None
          /\ last_screenshot_data' = last_screenshot_data
          /\ last_transcription' = last_transcription
          /\ lastOp'.complete_calls = 1 =>
                lastOp'.prompt =
                    <<[screen_text |-> last_screenshot_data.screen_text,
                       audio_text |-> last_screenshot_data.audio_text]>>
          /\ last_response_cache'.screen_text = last_screenshot_data.screen_text
          /\ last_response_cache'.audio_text = last_screenshot_data.audio_text
          /\ last_capture_time' = now
          /\ lastOp'.sent = <<ResponseMessage(last_response_cache')>>]_vars

\* a regenerated answer whose snapshot keeps its older timestamp
C26_Witness ==
    /\ lastOp.cmd = "solve"
    /\ lastOp.process_calls = 1
    /\ lastOp.complete_calls = 1
    /\ lastOp.screenshot_age >= CACHE_DURATION
    /\ last_screenshot_data.timestamp + lastOp.screenshot_age = last_capture_time
    /\ last_capture_time > last_screenshot_data.timestamp

\* C27: a solve rejected for a missing or an expired snapshot leaves the
\* snapshot, the cached answer and the generation time as they were, calls
\* nothing, and leaves the handler in its loop with the connection active.
C27_RejectedSolveChangesNothing ==
    [][( /\ lastOp'.cmd = "solve"
         /\ lastOp'.sent \in {<<NoScreenshotError>>, <<ScreenshotExpiredError>>} ) =>
          /\ UNCHANGED CacheVars
          /\ UNCHANGED <<last_transcription, now>>
          /\ NoExternalCall(lastOp')
          /\ ~lastOp'.returned
          /\ UNCHANGED pc
          /\ pc'[lastOp'.conn] = "receive"
          /\ UNCHANGED active_connections
          /\ lastOp'.conn \in active_connections']_vars

\* a solve rejected for its expired snapshot, the cached answer still there
C27_Witness ==
    /\ lastOp.cmd = "solve"
    /\ lastOp.sent = <<ScreenshotExpiredError>>
    /\ lastOp.screenshot_age > 300
    /\ last_response_cache # None
    /\ last_screenshot_data # None
    /\ pc[lastOp.conn] = "receive"


\* the answers the engine and the normaliser can give for a snapshot
AnswersFor(shot) ==
    {normalise(process(shot.screen_text, shot.audio_text, responses).text) :
        responses \in BackendScripts}

\* C28: whatever the interleaving of the connections' commands, a capture
\* stores its snapshot and the answer to that snapshot in one step, and a
\* solve that answers has found a snapshot, leaves it as it is and returns
\* that snapshot's texts with an answer generated for them: no reply pairs
\* the snapshot of one capture with the answer of another, and no solve uses
\* an absent snapshot.
C28_CacheAccessAtomic ==
    [][/\ lastOp'.cmd = "capture" =>
            /\ last_screenshot_data'.timestamp = now
            /\ last_capture_time' = now
            /\ last_response_cache'.screen_text =
                   last_screenshot_data'.screen_text
            /\ last_response_cache'.audio_text =
                   last_screenshot_data'.audio_text
            /\ last_response_cache'.ai_response \in
                   AnswersFor(last_screenshot_data')
            /\ lastOp'.sent = <<ResponseMessage(last_response_cache')>>
       /\ (lastOp'.cmd = "solve" /\ IsResponseReply(lastOp'.sent)) =>
            /\ last_screenshot_data # None
            /\ last_screenshot_data' = last_screenshot_data
            /\ lastOp'.sent[1].data.screen_text =
                   last_screenshot_data.screen_text
            /\ lastOp'.sent[1].data.audio_text =
                   last_screenshot_data.audio_text
            /\ lastOp'.sent[1].data.ai_response \in
                   AnswersFor(last_screenshot_data)
            /\ lastOp'.sent[1].data = last_response_cache'
       /\ (lastOp'.cmd = "solve" /\ lastOp'.process_calls = 1) =>
            last_screenshot_data # None]_vars

\* two connections are served, and a solve of one has returned the snapshot
\* and the answer with a code block that the other's capture had just stored
C28_Witness ==
    /\ lastOp.cmd = "solve"
    /\ lastOp.follows = "capture"
    /\ Cardinality(active_connections) >= 2
    /\ IsResponseReply(lastOp.sent)
    /\ lastOp.sent[1].data.ai_response.python_code # <<>>
    /\ lastOp.sent[1].data.screen_text = last_screenshot_data.screen_text

\* C30: every capture, solve and clear is answered with exactly one message
\* in the step that reads it, a response or an error for capture and solve,
\* cleared for clear, and the handler then waits for the next command or
\* has returned.
C30_ExactlyOneReply ==
    lastOp.cmd \in {"capture", "solve", "clear"} =>
        /\ Len(lastOp.sent) = 1
        /\ lastOp.cmd = "clear" => lastOp.sent[1].type = "cleared"
        /\ lastOp.cmd # "clear" => lastOp.sent[1].type \in {"response", "error"}
        /\ pc[lastOp.conn] \in {"receive", "closed"}
        /\ pc[lastOp.conn] = "closed" <=> lastOp.returned

\* a solve answered with the one error message after a capture and a clear
C30_Witness ==
    /\ lastOp.cmd = "solve"
    /\ lastOp.sent = <<NoScreenshotError>>
    /\ last_transcription # <<>>
    /\ pc[lastOp.conn] = "receive"

\* The answer stored when every attempt of the completion call timed out:
\* the error text of process, normalised
FailureAnswer == normalise(_format_error(TimeoutMessage))

\* The clock reading current_time of the capture or solve just served
CommandTime ==
    IF lastOp.cmd = "solve"
    THEN last_screenshot_data.timestamp + lastOp.screenshot_age
    ELSE last_screenshot_data.timestamp

C33_AnswerOnlyWithSnapshot ==
    last_response_cache # None =>
        /\ last_screenshot_data # None
        /\ last_response_cache.screen_text = last_screenshot_data.screen_text
        /\ last_response_cache.audio_text = last_screenshot_data.audio_text

\* the answer and its snapshot after a regenerating solve whose completion
\* call failed, the snapshot taken with a transcription
C33_Witness ==
    /\ lastOp.cmd = "solve"
    /\ lastOp.failed
    /\ last_returned = last_response_cache
    /\ last_response_cache # None
    /\ last_screenshot_data # None
    /\ last_transcription # <<>>

\* C34: a capture during which the screen or the audio collaborator fails
\* changes nothing in the cache: the snapshot, the cached answer and the
\* generation time stay as they were.
C34_FailedCaptureChangesNothing ==
    [][(lastOp'.cmd = "capture"
          /\ (lastOp'.screen_failed \/ lastOp'.audio_failed)) =>
        /\ last_screenshot_data' = last_screenshot_data
        /\ last_response_cache' = last_response_cache
        /\ last_capture_time' = last_capture_time]_vars

\* C35: a stop or a disconnect leaves the snapshot, the cached answer and the
\* generation time as they were, and a solve of a later connection, which
\* never captured, is served from the snapshot an earlier connection left
\* when that is at most 300 s old: it gets a response on the snapshot's
\* texts and not the no-snapshot error.
C35_CacheOutlivesConnection ==
    [][/\ lastOp'.cmd \in {"stop", "disconnect"} =>
            /\ UNCHANGED CacheVars
            /\ pc'[lastOp'.conn] = "closed"
       /\ (/\ lastOp'.cmd = "solve"
           /\ lastOp'.conn > 1
           /\ last_screenshot_data # None
           /\ now - last_screenshot_data.timestamp <= 300) =>
            /\ IsResponseReply(lastOp'.sent)
            /\ lastOp'.sent[1].data.screen_text = last_screenshot_data.screen_text
            /\ lastOp'.sent[1].data.audio_text = last_screenshot_data.audio_text
            /\ last_screenshot_data' = last_screenshot_data]_vars

\* the second client, connected after the first stopped or went away, has
\* been served the first client's snapshot without a new completion call
C35_Witness ==
    /\ lastOp.cmd = "solve"
    /\ lastOp.conn = 2
    /\ pc[1] = "closed"
    /\ IsResponseReply(lastOp.sent)
    /\ lastOp.sent[1].data.screen_text = <<"Two Sum problem">>
    /\ lastOp.complete_calls = 0

\* the text is empty or has fewer than 5 characters once trimmed
IsShort(text) == len(strip(text)) < 5

\* C36: process makes no completion call when screen_text is empty or has
\* fewer than 5 characters after trimming, and returns the fixed "no text
\* detected" text (it makes one call otherwise); a capture of such a text
\* normalises that text, caches it with the snapshot and sends it as a
\* response.
C36_ShortTextMakesNoCall ==
    /\ lastOp.cmd = "processed" =>
          IF IsShort(lastOp.screen_text)
          THEN /\ lastOp.result.text = NoTextDetected
               /\ lastOp.result.complete_calls = 0
               /\ lastOp.result.requests = 0
               /\ ~lastOp.result.failed
          ELSE /\ lastOp.result.complete_calls = 1
               /\ lastOp.result.requests >= 1
    /\ (lastOp.cmd = "capture" /\ IsShort(last_screenshot_data.screen_text)) =>
          /\ lastOp.process_calls = 1
          /\ lastOp.complete_calls = 0
          /\ lastOp.requests = 0
          /\ last_response_cache.ai_response =
                 [explanation |-> NoTextDetected, python_code |-> <<>>]
          /\ last_response_cache.screen_text = last_screenshot_data.screen_text
          /\ last_capture_time = last_screenshot_data.timestamp
          /\ lastOp.sent = <<ResponseMessage(last_response_cache)>>

\* a capture of a blank, an x and a newline has cached and sent the fixed
\* text as a response, process called once and no completion call made
C36_Witness ==
    /\ lastOp.cmd = "capture"
    /\ last_screenshot_data.screen_text = <<SP, "x", NL>>
    /\ lastOp.process_calls = 1
    /\ lastOp.complete_calls = 0
    /\ IsResponseReply(lastOp.sent)
    /\ lastOp.sent[1].data.ai_response.explanation = NoTextDetected
    /\ last_response_cache = lastOp.sent[1].data

\* the recording threads inside the while loop of record_loop
Looping == {t \in Threads : threads[t] \in {"check", "read"}}

\* C37: after any sequence of start_continuous_recording and
\* stop_continuous_recording calls at most one recording loop goes on
\* appending to audio_buffer, also when the join of a stop timed out before
\* the next start: while is_recording is set at most one thread is in the
\* loop, and the buffer holds the chunks of one thread only.
C37_AtMostOneLoop ==
    /\ is_recording => Cardinality(Looping) <= 1
    /\ \A i, j \in 1..Len(audio_buffer) : audio_buffer[i] = audio_buffer[j]

\* the handler of connection c is serving a capture or a solve
InProgress(c) == pc[c] \in {"screen", "audio", "request"}

\* connection c has just been sent the one reply of its capture or solve and
\* its handler awaits the next command
Replied(c) ==
    /\ pc[c] = "receive"
    /\ frame[c] = None
    /\ lastOp.conn = c
    /\ lastOp.cmd \in {"capture", "solve"}
    /\ Len(lastOp.sent) = 1
    /\ lastOp.sent[1].type \in {"response", "error"}

\* C31: every capture or solve command eventually completes with a reply
\* and its handler awaits the next command again, given that every
\* collaborator call and every HTTP attempt returns or times out; the retry
\* loop of the completion client ends, after at most MAX_RETRIES requests.
C31_CommandsComplete ==
    /\ \A c \in Conns : InProgress(c) ~> Replied(c)
    /\ [](\A c \in Conns : pc[c] = "request" =>
            /\ frame[c].attempt \in 1..MAX_RETRIES
            /\ frame[c].requests < MAX_RETRIES)

\* a capture has been answered after its completion call made a second
\* request
C31_Witness ==
    /\ lastOp.cmd = "capture"
    /\ lastOp.requests = MAX_RETRIES
    /\ Replied(lastOp.conn)
    /\ lastOp.sent[1].type = "response"

====
